---- MODULE Spec2Model ----
(***************************************************************************)
(* chikof/amdgpu: discovery of AMD GPUs under /sys/class/drm, the          *)
(* per-device reader threads of src/main.rs, the lines run() emits, and    *)
(* the unit formatter of src/usage.rs.                                     *)
(*                                                                         *)
(* Text is a sequence of one-character strings.  A formatted number is a   *)
(* record [neg, n, dec, suffix]: the digits n shown with dec decimals      *)
(* (n = 250, dec = 2 is "2.50"), a sign, and the text appended to it.      *)
(* An f64 is m * 2^e, kept as [m |-> m, e |-> e]; arithmetic on it is      *)
(* exact (the model does not round to 53 bits).                            *)
(***************************************************************************)
EXTENDS Integers, Sequences, FiniteSets, TLC

----------------------------------------------------------------------------
(* Text: str::trim, str::starts_with, str::parse                           *)

Whitespace == {" ", "\n", "\t"}

Digits == {"0", "1", "2", "3", "4", "5", "6", "7", "8", "9"}

DigitVal(c) ==
    CASE c = "0" -> 0 [] c = "1" -> 1 [] c = "2" -> 2 [] c = "3" -> 3
      [] c = "4" -> 4 [] c = "5" -> 5 [] c = "6" -> 6 [] c = "7" -> 7
      [] c = "8" -> 8 [] c = "9" -> 9

RECURSIVE trim_start(_)
trim_start(s) ==
    IF s # <<>> /\ Head(s) \in Whitespace THEN trim_start(Tail(s)) ELSE s

RECURSIVE trim_end(_)
trim_end(s) ==
    IF s # <<>> /\ s[Len(s)] \in Whitespace
    THEN trim_end(SubSeq(s, 1, Len(s) - 1))
    ELSE s

trim(s) == trim_end(trim_start(s))

starts_with(s, prefix) ==
    Len(s) >= Len(prefix) /\ SubSeq(s, 1, Len(prefix)) = prefix

all_digits(s) == \A i \in 1..Len(s) : s[i] \in Digits

RECURSIVE digits_value(_, _)
digits_value(s, acc) ==
    IF s = <<>> THEN acc ELSE digits_value(Tail(s), acc * 10 + DigitVal(Head(s)))

RECURSIVE Pow10(_)
Pow10(k) == IF k = 0 THEN 1 ELSE 10 * Pow10(k - 1)

RECURSIVE Pow2(_)
Pow2(k) == IF k = 0 THEN 1 ELSE 2 * Pow2(k - 1)

Ok(v) == [ok |-> TRUE, val |-> v, err |-> ""]
Err(e) == [ok |-> FALSE, val |-> 0, err |-> e]

\* <u64 as FromStr>::from_str: an optional '+', then one or more digits.
parse_u64(s) ==
    LET t == IF s # <<>> /\ Head(s) = "+" THEN Tail(s) ELSE s
    IN  IF t # <<>> /\ all_digits(t) THEN Ok(digits_value(t, 0)) ELSE Err("ParseError")

\* <i32 as FromStr>::from_str: an optional '+' or '-', then one or more digits.
parse_i32(s) ==
    LET signed == s # <<>> /\ Head(s) \in {"+", "-"}
        t      == IF signed THEN Tail(s) ELSE s
        v      == digits_value(t, 0)
    IN  IF t # <<>> /\ all_digits(t)
        THEN Ok(IF signed /\ Head(s) = "-" THEN 0 - v ELSE v)
        ELSE Err("ParseError")

\* <f32 as FromStr>::from_str on decimal text without exponent: an optional
\* sign, digits, an optional '.' and digits, at least one digit in all.
\* The value is num / 10^scale.
parse_f32(s) ==
    LET signed == s # <<>> /\ Head(s) \in {"+", "-"}
        t      == IF signed THEN Tail(s) ELSE s
        dots   == {i \in 1..Len(t) : t[i] = "."}
        dot    == IF dots = {} THEN Len(t) + 1 ELSE CHOOSE i \in dots : \A j \in dots : i <= j
        ip     == SubSeq(t, 1, dot - 1)
        fp     == SubSeq(t, dot + 1, Len(t))
        v      == digits_value(ip \o fp, 0)
    IN  IF all_digits(ip) /\ all_digits(fp) /\ Len(ip) + Len(fp) > 0
        THEN Ok([num |-> IF signed /\ Head(s) = "-" THEN 0 - v ELSE v,
                 scale |-> Len(fp)])
        ELSE Err("ParseError")

\* read_and_parse::<T>: fs::read_to_string(path)?, then s.trim().parse::<T>()?
read_and_parse(file, T) ==
    IF ~file.exists THEN Err("IOError")
    ELSE CASE T = "i32" -> parse_i32(trim(file.text))
           [] T = "u64" -> parse_u64(trim(file.text))
           [] T = "f32" -> parse_f32(trim(file.text))

----------------------------------------------------------------------------
(* Numbers.  F(m, e) is the f64 m * 2^e; Q is a quotient m * 2^e / d.      *)

F(m, e) == [m |-> m, e |-> e]

\* `n as f64` of an unsigned integer.
ToF(n) == F(n, 0)

RECURSIVE Norm(_)
Norm(x) ==
    IF x.m = 0 THEN F(0, 0)
    ELSE IF x.m % 2 = 0 THEN Norm(F(x.m \div 2, x.e + 1)) ELSE x

\* a >= b for b > 0: the comparison `value >= threshold`.
GeF(a, b) ==
    LET d == a.e - b.e
    IN  IF a.m <= 0 THEN FALSE
        ELSE IF d >= 0
             THEN IF d >= 31 THEN TRUE ELSE a.m > (b.m - 1) \div Pow2(d)
             ELSE IF 0 - d >= 31 THEN FALSE ELSE a.m \div Pow2(0 - d) >= b.m

\* value / threshold, exactly.
Scaled(value, threshold) ==
    LET v == Norm(value)
    IN  [m |-> v.m, e |-> v.e - threshold.e, d |-> threshold.m]

QofF(value) == Scaled(value, F(1, 0))

Abs(i) == IF i < 0 THEN 0 - i ELSE i

\* N / D (N >= 0, D > 0) rounded to the nearest integer, ties to even.
RoundHalfEven(N, D) ==
    LET q == N \div D
        r == N % D
    IN  IF 2 * r > D \/ (2 * r = D /\ q % 2 = 1) THEN q + 1 ELSE q

\* N / D (N >= 0, D > 0) rounded to the nearest integer, ties away from zero:
\* f64::round.
RoundHalfAway(N, D) ==
    LET q == N \div D
        r == N % D
    IN  IF 2 * r >= D THEN q + 1 ELSE q

\* Integer division of Rust: truncation toward zero.
TruncDiv(a, b) == IF a < 0 THEN 0 - ((0 - a) \div b) ELSE a \div b

\* format!("{:.dec}{suffix}", q)
FmtFixed(q, dec, suffix) ==
    LET N == IF q.e >= 0 THEN Abs(q.m) * Pow2(q.e) ELSE Abs(q.m)
        D == IF q.e >= 0 THEN q.d ELSE q.d * Pow2(0 - q.e)
    IN  [neg    |-> q.m < 0,
         n      |-> Pow10(dec) * (N \div D) + RoundHalfEven(Pow10(dec) * (N % D), D),
         dec    |-> dec,
         suffix |-> suffix]

\* format!("{}{suffix}", i) of an integer.
FmtInt(i, suffix) == [neg |-> i < 0, n |-> Abs(i), dec |-> 0, suffix |-> suffix]

----------------------------------------------------------------------------
(* src/usage.rs                                                            *)

Units == {"Temperature", "Memory", "Gpu", "Power", "Frequency"}

\* 1024^4, 1024^3, 1024^2, 1024, 1
BYTE_SUFFIXES ==
    << [suffix |-> "TB", threshold |-> F(1, 40)],
       [suffix |-> "GB", threshold |-> F(1, 30)],
       [suffix |-> "MB", threshold |-> F(1, 20)],
       [suffix |-> "KB", threshold |-> F(1, 10)],
       [suffix |-> "B",  threshold |-> F(1, 0)] >>

\* 10^9 = 1953125 * 2^9, 10^6 = 15625 * 2^6, 10^3 = 125 * 2^3, 1
HERTZ_SUFFIXES ==
    << [suffix |-> "GHz", threshold |-> F(1953125, 9)],
       [suffix |-> "MHz", threshold |-> F(15625, 6)],
       [suffix |-> "kHz", threshold |-> F(125, 3)],
       [suffix |-> "Hz",  threshold |-> F(1, 0)] >>

\* Variant of meets: `>` for `>=`.
meets_strictly(value, threshold) ==
    GeF(value, threshold) /\ Norm(value) # Norm(threshold)

\* The comparison of format_scaled's loop.
meets(value, threshold) == GeF(value, threshold)

\* for &(suffix, threshold) in suffixes { if value >= threshold { return ... } }
RECURSIVE format_scaled_from(_, _, _)
format_scaled_from(value, suffixes, i) ==
    IF i > Len(suffixes)
    THEN FmtFixed(QofF(value), 0, "")
    ELSE IF meets(value, suffixes[i].threshold)
         THEN FmtFixed(Scaled(value, suffixes[i].threshold), 2, " " \o suffixes[i].suffix)
         ELSE format_scaled_from(value, suffixes, i + 1)

format_scaled(value, suffixes) == format_scaled_from(value, suffixes, 1)

format_units(unit, value) ==
    CASE unit = "Temperature" -> FmtFixed(QofF(value), 1, " °C")
      [] unit = "Gpu"         -> FmtFixed(QofF(F(value.m * 25, value.e + 2)), 1, "%")
      [] unit = "Power"       -> FmtFixed(QofF(value), 1, " W")
      [] unit = "Memory"      -> format_scaled(value, BYTE_SUFFIXES)
      [] unit = "Frequency"   -> format_scaled(value, HERTZ_SUFFIXES)

----------------------------------------------------------------------------
(* src/main.rs: formatting                                                 *)

FREQ_UNITS == <<"Hz", "KHz", "MHz", "GHz">>

\* while value >= 1000.0 && unit_index < units.len() - 1 { value /= 1000.0; unit_index += 1 }
\* k is unit_index; value is hz / 1000^k, so value >= 1000 is hz >= 1000^(k+1)
\* (the index test is written first only to keep 1000^(k+1) in range).
RECURSIVE freq_unit_index(_, _)
freq_unit_index(hz, k) ==
    IF k < Len(FREQ_UNITS) - 1 /\ hz >= Pow10(3 * (k + 1))
    THEN freq_unit_index(hz, k + 1)
    ELSE k

format_frequency(hz) ==
    LET k == freq_unit_index(hz, 0)
    IN  FmtInt(RoundHalfAway(hz, Pow10(3 * k)), " " \o FREQ_UNITS[k + 1])

----------------------------------------------------------------------------
(* src/main.rs: the filesystem it reads.                                   *)
(*                                                                         *)
(* A file is [exists, text]; exists = FALSE is a missing or unreadable     *)
(* file.  An entry of /sys/class/drm is                                    *)
(*   [name, vendor, hwmon, files]                                          *)
(* with vendor the file device/vendor, hwmon the directory device/hwmon    *)
(* ([listable, subdirs], each subdir [is_dir, files]) and files the metric *)
(* files under device/.  The tree is read-only and does not change.        *)

CARD_PREFIX == <<"c", "a", "r", "d">>

VENDOR_AMD == <<"0", "x", "1", "0", "0", "2">>

\* Variant of is_amd_gpu: the vendor text is compared untrimmed.
is_amd_gpu_untrimmed(entry) ==
    /\ starts_with(entry.name, CARD_PREFIX)
    /\ entry.vendor.exists
    /\ entry.vendor.text = VENDOR_AMD

\* The body of detect_amd_gpus's loop: whether the entry is pushed.
is_amd_gpu(entry) ==
    /\ starts_with(entry.name, CARD_PREFIX)
    /\ entry.vendor.exists
    /\ trim(entry.vendor.text) = VENDOR_AMD

RECURSIVE detect_from(_, _, _)
detect_from(entries, i, amd) ==
    IF i > Len(entries) THEN amd
    ELSE detect_from(entries, i + 1,
                     IF is_amd_gpu(entries[i]) THEN Append(amd, i) ELSE amd)

\* detect_amd_gpus: fs::read_dir(drm_dir)? and its iteration fail together
\* (dir.listable = FALSE); the result is the indices of the pushed entries,
\* in listing order.
detect_amd_gpus(dir) ==
    IF ~dir.listable THEN Err("IOError") ELSE Ok(detect_from(dir.entries, 1, <<>>))

RECURSIVE find_hwmon_from(_, _)
find_hwmon_from(subdirs, i) ==
    IF i > Len(subdirs) THEN Err("No hwmon directory found")
    ELSE IF subdirs[i].is_dir /\ subdirs[i].files["temp1_input"].exists
         THEN Ok(i)
         ELSE find_hwmon_from(subdirs, i + 1)

\* find_hwmon_dir: the index of the first qualifying subdirectory.
find_hwmon_dir(gpu) ==
    IF ~gpu.hwmon.listable THEN Err("IOError") ELSE find_hwmon_from(gpu.hwmon.subdirs, 1)

\* Variant of first_failed: the last read is not followed by `?`.
first_failed_but_last(reads) ==
    IF \A i \in 1..(Len(reads) - 1) : reads[i].ok THEN 0
    ELSE CHOOSE i \in 1..(Len(reads) - 1) :
             ~reads[i].ok /\ \A j \in 1..(i - 1) : reads[j].ok

\* The `?` after each read: the position of the first read that failed
\* (0: none did).
first_failed(reads) ==
    IF \A i \in 1..Len(reads) : reads[i].ok THEN 0
    ELSE CHOOSE i \in 1..Len(reads) :
             ~reads[i].ok /\ \A j \in 1..(i - 1) : reads[j].ok

\* read_gpu_data: six reads in this order, the function ending at the first
\* that fails; GpuData is built only after the sixth.
read_gpu_data(gpu, hwmon_dir) ==
    LET temp_milli       == read_and_parse(hwmon_dir.files["temp1_input"], "i32")
        freq_hz          == read_and_parse(hwmon_dir.files["freq1_input"], "u64")
        power_microwatts == read_and_parse(hwmon_dir.files["power1_average"], "u64")
        load_percent     == read_and_parse(gpu.files["gpu_busy_percent"], "f32")
        vram_used        == read_and_parse(gpu.files["mem_info_vram_used"], "u64")
        vram_total       == read_and_parse(gpu.files["mem_info_vram_total"], "u64")
        reads            == <<temp_milli, freq_hz, power_microwatts, load_percent,
                              vram_used, vram_total>>
        failed           == first_failed(reads)
    IN  IF failed # 0 THEN Err(reads[failed].err)
        ELSE Ok([temperature |-> FmtInt(TruncDiv(temp_milli.val, 1000), "°C"),
                 core_clock  |-> format_frequency(freq_hz.val),
                 power_usage |-> FmtInt(power_microwatts.val \div 1000000, " Watts"),
                 gpu_load    |-> FmtFixed([m |-> load_percent.val.num, e |-> 0,
                                           d |-> Pow10(load_percent.val.scale)], 1, "%"),
                 vram_used   |-> FmtInt(vram_used.val \div 1024, " MB"),
                 vram_total  |-> FmtInt(vram_total.val \div 1024, " MB")])

\* The format string of run(): six keys in this order.
json_output(gpu_data) ==
    << [key |-> "GPU Temperature", value |-> gpu_data.temperature],
       [key |-> "GPU Load",        value |-> gpu_data.gpu_load],
       [key |-> "GPU Core Clock",  value |-> gpu_data.core_clock],
       [key |-> "GPU Power Usage", value |-> gpu_data.power_usage],
       [key |-> "GPU VRAM Usage",  value |-> gpu_data.vram_used],
       [key |-> "GPU VRAM Total",  value |-> gpu_data.vram_total] >>

\* An emitted line.  dev is the position of the handle it reports (0: none).
Line(stream, kind, dev, json, msg) ==
    [stream |-> stream, kind |-> kind, dev |-> dev, json |-> json, msg |-> msg]

\* Variant of report: the Err arm prints nothing.
report_ok_only(lines, k, result) ==
    IF result.ok
    THEN Append(lines, Line("stdout", "json", k, json_output(result.val), ""))
    ELSE lines

\* The arms of `match handle.join().unwrap()`: the output after handle k's
\* result is printed.
report(lines, k, result) ==
    IF result.ok
    THEN Append(lines, Line("stdout", "json", k, json_output(result.val), ""))
    ELSE Append(lines, Line("stderr", "error", k, <<>>, result.err))

\* Variant of spawn_arg: every thread is given the first path.
spawn_arg_first(gpus, i) == gpus[1]

\* `.map(|gpu_path| thread::spawn(move || ...))`: the path the i-th thread owns.
spawn_arg(gpus, i) == gpus[i]

\* Variant of next_handle: the handles are taken from the back.
next_handle_from_back(hs, done) == Len(hs) - done

\* `for handle in handles`: the handle joined after `done` of them were.
next_handle(hs, done) == done + 1

\* Variant of joinable: the result is taken without waiting.
joinable_at_once(h) == TRUE

\* handle.join() returns once the thread has finished.
joinable(h) == h.pc = "done"

\* Variant of no_gpus: the empty list is not tested for.
no_gpus_unchecked(gpus) == FALSE

\* amd_gpus.is_empty()
no_gpus(gpus) == gpus = <<>>

\* Variant of main_exit: no exit(1).
main_exit_always_zero(run_ok) == 0

\* main: exit(1) after an Err from run(), the normal exit status otherwise.
main_exit(run_ok) == IF run_ok THEN 0 ELSE 1

----------------------------------------------------------------------------
(* Inputs: file contents and directory trees the runs are checked on.      *)

File(text) == [exists |-> TRUE, text |-> text]

Missing == [exists |-> FALSE, text |-> <<>>]

DigitChar(d) ==
    CASE d = 0 -> "0" [] d = 1 -> "1" [] d = 2 -> "2" [] d = 3 -> "3" [] d = 4 -> "4"
      [] d = 5 -> "5" [] d = 6 -> "6" [] d = 7 -> "7" [] d = 8 -> "8" [] d = 9 -> "9"

RECURSIVE Decimal(_)
Decimal(n) == IF n < 10 THEN <<DigitChar(n)>> ELSE Append(Decimal(n \div 10), DigitChar(n % 10))

\* What the kernel writes for a number: its digits and a newline.
NumText(n) == Decimal(n) \o <<"\n">>

TempFiles ==
    { Missing, File(NumText(45000)), File(<<"-">> \o NumText(5500)),
      File(<<"n", "a", "n", "\n">>) }

FreqFiles ==
    { Missing, File(NumText(2100000000)), File(NumText(999500)), File(<<>>) }

PowerFiles ==
    { Missing, File(NumText(142000000)), File(<<"1", "2", ".", "5", "\n">>) }

LoadFiles ==
    { Missing, File(NumText(27)), File(<<"2", "7", ".", "2", "5", "\n">>),
      File(<<"b", "u", "s", "y">>) }

VramUsedFiles ==
    { Missing, File(NumText(512)), File(NumText(1024)), File(NumText(1048576)),
      File(<<"-", "1", "\n">>) }

VramTotalFiles ==
    { Missing, File(NumText(1073741824)), File(NumText(1610612736)),
      File(<<" ", "\n">>) }

HwmonFiles(temp, freq, power) ==
    [f \in {"temp1_input", "freq1_input", "power1_average"} |->
        CASE f = "temp1_input" -> temp [] f = "freq1_input" -> freq
          [] f = "power1_average" -> power]

DeviceFiles(load, used, total) ==
    [f \in {"gpu_busy_percent", "mem_info_vram_used", "mem_info_vram_total"} |->
        CASE f = "gpu_busy_percent" -> load [] f = "mem_info_vram_used" -> used
          [] f = "mem_info_vram_total" -> total]

Subdir(is_dir, files) == [is_dir |-> is_dir, files |-> files]

Hwmon(listable, subdirs) == [listable |-> listable, subdirs |-> subdirs]

Entry(name, vendor, hwmon, files) ==
    [name |-> name, vendor |-> vendor, hwmon |-> hwmon, files |-> files]

Card0 == <<"c", "a", "r", "d", "0">>

Card1 == <<"c", "a", "r", "d", "1">>

RenderNode == <<"r", "e", "n", "d", "e", "r", "D", "1", "2", "8">>

AmdVendor == File(VENDOR_AMD \o <<"\n">>)

GoodHwmonFiles ==
    HwmonFiles(File(NumText(45000)), File(NumText(2100000000)), File(NumText(142000000)))

GoodDeviceFiles ==
    DeviceFiles(File(NumText(27)), File(NumText(1048576)), File(NumText(1073741824)))

GoodHwmon == Hwmon(TRUE, <<Subdir(TRUE, GoodHwmonFiles)>>)

\* The directory entries the multi-device runs are made of.
GoodA == Entry(Card0, AmdVendor, GoodHwmon, GoodDeviceFiles)

GoodB ==
    Entry(Card1, AmdVendor,
          Hwmon(TRUE, <<Subdir(TRUE, HwmonFiles(File(NumText(61500)), File(NumText(500000000)),
                                                 File(NumText(33999999))))>>),
          DeviceFiles(File(<<"9", "9", ".", "5", "\n">>), File(NumText(512)),
                      File(NumText(1610612736))))

NonCard == Entry(RenderNode, AmdVendor, GoodHwmon, GoodDeviceFiles)

OtherVendor ==
    Entry(Card1, File(<<"0", "x", "1", "0", "d", "e", "\n">>), GoodHwmon, GoodDeviceFiles)

NoSensor ==
    Entry(Card0, AmdVendor,
          Hwmon(TRUE, <<Subdir(TRUE, HwmonFiles(Missing, File(NumText(2100000000)),
                                                 File(NumText(142000000))))>>),
          GoodDeviceFiles)

MissingMetric ==
    Entry(Card1, AmdVendor,
          Hwmon(TRUE, <<Subdir(TRUE, HwmonFiles(File(NumText(45000)), File(NumText(2100000000)),
                                                 Missing))>>),
          GoodDeviceFiles)

Unparsable ==
    Entry(Card0, AmdVendor, GoodHwmon,
          DeviceFiles(File(NumText(27)), File(<<"-", "1", "\n">>), File(NumText(1073741824))))

EntryKinds == {GoodA, GoodB, NonCard, OtherVendor, NoSensor, MissingMetric, Unparsable}

\* Sequences over S of length at most n.
RECURSIVE SeqsUpTo(_, _)
SeqsUpTo(S, n) ==
    IF n = 0 THEN {<<>>}
    ELSE LET shorter == SeqsUpTo(S, n - 1)
         IN  shorter \cup {Append(q, x) : q \in shorter, x \in S}

\* The largest number of entries of /sys/class/drm in the multi-device runs.
MaxEntries == 3

----------------------------------------------------------------------------
(* State                                                                   *)

VARIABLES
    drm,        \* /sys/class/drm: [listable, entries]
    pc,         \* where main is: "start", "spawn", "join", "exit" ("idle": not run)
    amd_gpus,   \* run()'s amd_gpus: indices into drm.entries
    handles,    \* run()'s handles, one record per spawned thread
    joined,     \* how many handles the loop of run() has joined
    out,        \* the lines written to stdout and stderr, in order
    exit_code,  \* the process exit status (-1 while it runs)
    finished,   \* history: the threads in the order they finished
    unit,       \* format_units: its arguments and, once called, its result
    value,
    formatted

vars == <<drm, pc, amd_gpus, handles, joined, out, exit_code, finished, unit, value, formatted>>

pipeline == <<drm, pc, amd_gpus, handles, joined, out, exit_code, finished>>

formatter == <<unit, value, formatted>>

Pending == [ok |-> FALSE, val |-> 0, err |-> "pending"]

Unlistable == [listable |-> FALSE, entries |-> <<>>]

Listing(entries) == [listable |-> TRUE, entries |-> entries]

RunStarts(dir) ==
    /\ drm = dir
    /\ pc = "start"
    /\ amd_gpus = <<>>
    /\ handles = <<>>
    /\ joined = 0
    /\ out = <<>>
    /\ exit_code = -1
    /\ finished = <<>>

FormatterIdle ==
    /\ unit = "Temperature"
    /\ value = F(0, 0)
    /\ formatted = <<>>

Init ==
    /\ \E dir \in {Unlistable} \cup {Listing(es) : es \in SeqsUpTo(EntryKinds, MaxEntries)} :
           RunStarts(dir)
    /\ FormatterIdle

----------------------------------------------------------------------------
(* run() and main()                                                        *)

\* let amd_gpus = detect_amd_gpus()?; if amd_gpus.is_empty() { ... return Ok(()) }
\* An Err leaves run(), and main prints it and exits.
Detect ==
    /\ pc = "start"
    /\ LET found == detect_amd_gpus(drm)
       IN  IF ~found.ok
           THEN /\ out' = Append(out, Line("stderr", "fatal", 0, <<>>, found.err))
                /\ exit_code' = main_exit(FALSE)
                /\ pc' = "exit"
                /\ UNCHANGED amd_gpus
           ELSE IF no_gpus(found.val)
           THEN /\ out' = Append(out, Line("stdout", "info", 0, <<>>, "No AMD GPUs detected."))
                /\ exit_code' = main_exit(TRUE)
                /\ pc' = "exit"
                /\ UNCHANGED amd_gpus
           ELSE /\ amd_gpus' = found.val
                /\ pc' = "spawn"
                /\ UNCHANGED <<out, exit_code>>
    /\ UNCHANGED <<drm, handles, joined, finished>>
    /\ UNCHANGED formatter

\* One step of amd_gpus.into_iter().map(|gpu_path| thread::spawn(...)).
Spawn ==
    /\ pc = "spawn"
    /\ Len(handles) < Len(amd_gpus)
    /\ handles' = Append(handles, [gpu |-> spawn_arg(amd_gpus, Len(handles) + 1),
                                   pc |-> "locate", hwmon_dir |-> 0, result |-> Pending])
    /\ UNCHANGED <<drm, pc, amd_gpus, joined, out, exit_code, finished>>
    /\ UNCHANGED formatter

\* .collect(): every thread is spawned; the loop over handles begins.
Collect ==
    /\ pc = "spawn"
    /\ Len(handles) = Len(amd_gpus)
    /\ pc' = "join"
    /\ UNCHANGED <<drm, amd_gpus, handles, joined, out, exit_code, finished>>
    /\ UNCHANGED formatter

\* Thread i: let hwmon_dir = find_hwmon_dir(&gpu_path)?;
ThreadLocate(i) ==
    /\ handles[i].pc = "locate"
    /\ LET found == find_hwmon_dir(drm.entries[handles[i].gpu])
       IN  handles' = [handles EXCEPT ![i] =
               IF found.ok
               THEN [@ EXCEPT !.pc = "read", !.hwmon_dir = found.val]
               ELSE [@ EXCEPT !.pc = "done", !.result = found]]
    /\ finished' = IF handles'[i].pc = "done" THEN Append(finished, i) ELSE finished
    /\ UNCHANGED <<drm, pc, amd_gpus, joined, out, exit_code>>
    /\ UNCHANGED formatter

\* Thread i: read_gpu_data(&gpu_path, &hwmon_dir), the thread's result.
ThreadRead(i) ==
    /\ handles[i].pc = "read"
    /\ LET gpu == drm.entries[handles[i].gpu]
       IN  handles' = [handles EXCEPT ![i] =
               [@ EXCEPT !.pc = "done",
                         !.result = read_gpu_data(gpu, gpu.hwmon.subdirs[handles[i].hwmon_dir])]]
    /\ finished' = Append(finished, i)
    /\ UNCHANGED <<drm, pc, amd_gpus, joined, out, exit_code>>
    /\ UNCHANGED formatter

\* One iteration of `for handle in handles`: join, then print the result.
Join ==
    /\ pc = "join"
    /\ joined < Len(handles)
    /\ LET k == next_handle(handles, joined)
       IN  /\ joinable(handles[k])
           /\ out' = report(out, k, handles[k].result)
    /\ joined' = joined + 1
    /\ UNCHANGED <<drm, pc, amd_gpus, handles, exit_code, finished>>
    /\ UNCHANGED formatter

\* The loop is over: run() returns Ok(()) and main returns.
Finish ==
    /\ pc = "join"
    /\ joined = Len(handles)
    /\ pc' = "exit"
    /\ exit_code' = main_exit(TRUE)
    /\ UNCHANGED <<drm, amd_gpus, handles, joined, out, finished>>
    /\ UNCHANGED formatter

Next ==
    \/ Detect
    \/ Spawn
    \/ Collect
    \/ \E i \in 1..Len(handles) : ThreadLocate(i)
    \/ \E i \in 1..Len(handles) : ThreadRead(i)
    \/ Join
    \/ Finish

\* Runs over directories of up to MaxEntries entries.
Spec == Init /\ [][Next]_vars

----------------------------------------------------------------------------
(* Runs on one AMD device whose files are drawn independently.             *)

\* A listing of device/hwmon that is not one good subdirectory.
OddHwmons ==
    { Hwmon(FALSE, <<>>),
      Hwmon(TRUE, <<>>),
      Hwmon(TRUE, <<Subdir(FALSE, GoodHwmonFiles)>>),
      Hwmon(TRUE, << Subdir(FALSE, GoodHwmonFiles),
                     Subdir(TRUE, HwmonFiles(Missing, File(NumText(1)), File(NumText(1)))),
                     Subdir(TRUE, GoodHwmonFiles),
                     Subdir(TRUE, HwmonFiles(File(NumText(99000)), Missing, Missing)) >>) }

Devices ==
    { Entry(Card0, AmdVendor, Hwmon(TRUE, <<Subdir(TRUE, HwmonFiles(temp, freq, power))>>),
            DeviceFiles(load, used, total)) :
        temp \in TempFiles, freq \in FreqFiles, power \in PowerFiles,
        load \in LoadFiles, used \in VramUsedFiles, total \in VramTotalFiles }
    \cup { Entry(Card0, AmdVendor, h, GoodDeviceFiles) : h \in OddHwmons }

InitDevice ==
    /\ \E gpu \in Devices : RunStarts(Listing(<<gpu>>))
    /\ FormatterIdle

SpecDevice == InitDevice /\ [][Next]_vars

----------------------------------------------------------------------------
(* Discovery alone, over names and vendor files.                           *)

Names ==
    { Card0, RenderNode, <<"c", "a", "r">>,
      <<"C", "a", "r", "d", "0">>, <<"x", "c", "a", "r", "d", "0">> }

VendorFiles ==
    { Missing,
      AmdVendor,
      File(<<" ", "\t">> \o VENDOR_AMD \o <<" ", "\n", "\n">>),
      File(<<"0", "x", "1", "0", "d", "e", "\n">>),
      File(<<>>),
      File(<<"0", "X", "1", "0", "0", "2", "\n">>),
      File(<<"0", "x", "1", "0", "0", "2", "0", "\n">>),
      File(<<"0", "x", " ", "1", "0", "0", "2", "\n">>) }

\* The largest number of entries of /sys/class/drm in the discovery runs.
MaxListing == 2

InitDiscovery ==
    /\ \E dir \in {Unlistable} \cup
                  { Listing(es) :
                      es \in SeqsUpTo({ Entry(n, v, GoodHwmon, GoodDeviceFiles) :
                                           n \in Names, v \in VendorFiles }, MaxListing) } :
           RunStarts(dir)
    /\ FormatterIdle

SpecDiscovery == InitDiscovery /\ [][Detect]_vars

----------------------------------------------------------------------------
(* format_units alone.                                                     *)

\* Values are drawn as quarters of a threshold: 0, 1/4, ..., MaxQuarters/4.
MaxQuarters == 8

Thresholds(table) == { table[i].threshold : i \in 1..Len(table) }

QuartersOf(t) == { F(c * t.m, t.e - 2) : c \in 0..MaxQuarters }

ByteValues ==
    UNION { QuartersOf(t) : t \in Thresholds(BYTE_SUFFIXES) }
    \cup { ToF(1023), ToF(1025), ToF(1048575), ToF(1048577), F(1048575, 20), F(-3, 3) }

HertzValues ==
    UNION { QuartersOf(t) : t \in Thresholds(HERTZ_SUFFIXES) }
    \cup { ToF(999), ToF(1001), ToF(999999), ToF(999999999), F(9765625, 8), F(-1, -1) }

FixedValues == QuartersOf(F(1, 0)) \cup { F(317, -2), F(1268, -1), F(27, -2), F(-21, -1) }

FormatInputs ==
    ({"Memory"} \X ByteValues) \cup ({"Frequency"} \X HertzValues)
    \cup ({"Temperature", "Gpu", "Power"} \X FixedValues)

NotRun ==
    /\ drm = Unlistable
    /\ pc = "idle"
    /\ amd_gpus = <<>>
    /\ handles = <<>>
    /\ joined = 0
    /\ out = <<>>
    /\ exit_code = -1
    /\ finished = <<>>

InitFormat ==
    /\ NotRun
    /\ \E input \in FormatInputs : unit = input[1] /\ value = input[2]
    /\ formatted = <<>>

\* A call of format_units(unit, value).
Format ==
    /\ formatted = <<>>
    /\ formatted' = <<format_units(unit, value)>>
    /\ UNCHANGED <<unit, value>>
    /\ UNCHANGED pipeline

SpecFormat == InitFormat /\ [][Format]_vars

----------------------------------------------------------------------------
(* What the claims are stated over.                                        *)

Devs == 1..Len(amd_gpus)

LinesOf(k) == { p \in 1..Len(out) : out[p].dev = k }

JsonLines == { p \in 1..Len(out) : out[p].kind = "json" }

ErrorLines == { p \in 1..Len(out) : out[p].kind = "error" }

\* The entry behind the k-th discovered device.
GpuOf(k) == drm.entries[amd_gpus[k]]

\* The name begins with the four letters of "card".
HasCardPrefix(name) ==
    Len(name) >= 4 /\ name[1] = "c" /\ name[2] = "a" /\ name[3] = "r" /\ name[4] = "d"

\* The vendor file can be read and holds 0x1002 between whitespace only.
VendorIsAmd(file) ==
    /\ file.exists
    /\ \E i, j \in 1..Len(file.text) :
          /\ SubSeq(file.text, i, j) = <<"0", "x", "1", "0", "0", "2">>
          /\ \A p \in (1..(i - 1)) \cup ((j + 1)..Len(file.text)) :
                file.text[p] \in {" ", "\n", "\t"}

Qualifies(entry) == HasCardPrefix(entry.name) /\ VendorIsAmd(entry.vendor)

\* The subdirectories of device/hwmon that hold a temp1_input.
SensorDirs(gpu) ==
    { i \in 1..Len(gpu.hwmon.subdirs) :
        gpu.hwmon.subdirs[i].is_dir /\ gpu.hwmon.subdirs[i].files["temp1_input"].exists }

FirstSensorDir(gpu) ==
    gpu.hwmon.subdirs[CHOOSE i \in SensorDirs(gpu) : \A j \in SensorDirs(gpu) : i <= j]

\* The sensor directory is found and each of the six files is there and parses.
AllMetricsValid(gpu) ==
    /\ gpu.hwmon.listable
    /\ SensorDirs(gpu) # {}
    /\ read_and_parse(FirstSensorDir(gpu).files["temp1_input"], "i32").ok
    /\ read_and_parse(FirstSensorDir(gpu).files["freq1_input"], "u64").ok
    /\ read_and_parse(FirstSensorDir(gpu).files["power1_average"], "u64").ok
    /\ read_and_parse(gpu.files["gpu_busy_percent"], "f32").ok
    /\ read_and_parse(gpu.files["mem_info_vram_used"], "u64").ok
    /\ read_and_parse(gpu.files["mem_info_vram_total"], "u64").ok

\* One of the six metric files is not there.
MissingMetricFile(gpu) ==
    /\ gpu.hwmon.listable
    /\ \/ SensorDirs(gpu) = {}
       \/ \E f \in DOMAIN FirstSensorDir(gpu).files : ~FirstSensorDir(gpu).files[f].exists
       \/ \E f \in DOMAIN gpu.files : ~gpu.files[f].exists

----------------------------------------------------------------------------
(* Claims checked under Spec.                                              *)

\* C1: when discovery returns N >= 1 devices, no device ever has more than
\* one line, every line is a JSON record on stdout or an error line on
\* stderr, and when the run has ended each device has exactly one line, so
\* that JSON lines + error lines = N.
C1_OneLinePerDevice ==
    amd_gpus # <<>> =>
        /\ \A p \in 1..Len(out) :
              /\ out[p].dev \in Devs
              /\ \/ out[p].kind = "json" /\ out[p].stream = "stdout"
                 \/ out[p].kind = "error" /\ out[p].stream = "stderr"
        /\ \A k \in Devs : Cardinality(LinesOf(k)) <= 1
        /\ pc = "exit" =>
              /\ \A k \in Devs : Cardinality(LinesOf(k)) = 1
              /\ Cardinality(JsonLines) + Cardinality(ErrorLines) = Len(amd_gpus)
              /\ Len(out) = Len(amd_gpus)

\* C1 witness: a finished run over three devices with two records and one error.
C1_Witness ==
    /\ pc = "exit"
    /\ Len(amd_gpus) = 3
    /\ Cardinality(JsonLines) = 2
    /\ Cardinality(ErrorLines) = 1

\* C2: the lines come in the order the threads were spawned, which is the
\* order of the discovery list: the p-th line is the result of the p-th
\* thread, which owns the p-th discovered device, whatever order the threads
\* finished in.
C2_SpawnOrder ==
    /\ \A k \in 1..Len(handles) : handles[k].gpu = amd_gpus[k]
    /\ \A i, j \in Devs : i < j => amd_gpus[i] < amd_gpus[j]
    /\ amd_gpus # <<>> =>
          \A p \in 1..Len(out) :
              /\ out[p].dev = p
              /\ out[p].kind = "json" <=> handles[p].result.ok
              /\ out[p].kind = "json" => out[p].json = json_output(handles[p].result.val)
              /\ out[p].kind = "error" => out[p].msg = handles[p].result.err

\* C2 witness: the threads finished in the order 3, 2, 1 and the lines are
\* those of devices 1, 2, 3.
C2_Witness ==
    /\ pc = "exit"
    /\ finished = <<3, 2, 1>>
    /\ Len(out) = 3
    /\ out[1].dev = 1 /\ out[2].dev = 2 /\ out[3].dev = 3

\* C3 as stated: once a JSON or error line is printed, every spawned thread
\* has completed.
C3_AllJoinedBeforeAnyLine ==
    (JsonLines \cup ErrorLines # {}) =>
        /\ Len(handles) = Len(amd_gpus)
        /\ \A k \in 1..Len(handles) : handles[k].pc = "done"

\* C3 amended: the line of device k is printed only after every thread has
\* been spawned and the threads of devices 1..k have completed (the threads
\* of later devices may still be running).
C3_JoinedBeforeOwnLine ==
    \A p \in JsonLines \cup ErrorLines :
        /\ Len(handles) = Len(amd_gpus)
        /\ \A j \in 1..out[p].dev : handles[j].pc = "done" /\ handles[j].result # Pending

\* C3 witness: the line of device 1 is out while a later thread is running.
C3_Witness ==
    /\ Len(out) >= 1
    /\ out[1].dev = 1
    /\ handles[1].pc = "done"
    /\ \E j \in 2..Len(handles) : handles[j].pc # "done"

\* C5: a device's outcome depends on its own files only: at the end of a
\* run, device k has a JSON record exactly when its own sensor directory
\* and six files are valid; and when exactly one device has a missing metric
\* file and the others are valid, the output is N lines, N-1 records and one
\* error line, that of the failing device.
C5_SiblingsUnaffected ==
    (pc = "exit" /\ amd_gpus # <<>>) =>
        /\ \A k \in Devs :
              (\E p \in JsonLines : out[p].dev = k) <=> AllMetricsValid(GpuOf(k))
        /\ \A f \in Devs :
              ( /\ MissingMetricFile(GpuOf(f))
                /\ \A k \in Devs \ {f} : AllMetricsValid(GpuOf(k)) )
              => /\ Len(out) = Len(amd_gpus)
                 /\ Cardinality(JsonLines) = Len(amd_gpus) - 1
                 /\ Cardinality(ErrorLines) = 1
                 /\ \A p \in ErrorLines : out[p].dev = f

\* C5 witness: three devices, the second with a missing metric file.
C5_Witness ==
    /\ pc = "exit"
    /\ Len(amd_gpus) = 3
    /\ AllMetricsValid(GpuOf(1))
    /\ MissingMetricFile(GpuOf(2))
    /\ AllMetricsValid(GpuOf(3))
    /\ out[1].kind = "json" /\ out[2].kind = "error" /\ out[3].kind = "json"

\* C6: the exit code is 0 on every run whose discovery succeeded and
\* non-zero exactly when the directory could not be listed; a fatal line
\* comes from discovery only.
C6_ExitCode ==
    /\ pc = "exit" => exit_code \in {0, 1}
    /\ pc = "exit" => (exit_code = 0 <=> drm.listable)
    /\ pc # "exit" => exit_code = -1
    /\ \A p \in 1..Len(out) : out[p].kind = "fatal" => ~drm.listable /\ exit_code = 1

\* C6 witness: every device of a run failed and the run ended with 0.
C6_Witness ==
    /\ pc = "exit"
    /\ exit_code = 0
    /\ Len(amd_gpus) >= 2
    /\ Cardinality(ErrorLines) = Len(amd_gpus)

\* C7: when the directory is listed and no entry qualifies, no thread is
\* spawned, and the run ends with the informational line on stdout as its
\* only output and exit code 0.
C7_NoDevices ==
    (drm.listable /\ \A i \in 1..Len(drm.entries) : ~Qualifies(drm.entries[i])) =>
        /\ handles = <<>>
        /\ pc \in {"start", "exit"}
        /\ pc = "exit" =>
              /\ Len(out) = 1
              /\ out[1].kind = "info" /\ out[1].stream = "stdout"
              /\ exit_code = 0

\* C7 witness: a listing of entries none of which qualifies, after the run.
C7_Witness ==
    /\ pc = "exit"
    /\ drm.listable
    /\ Len(drm.entries) >= 2
    /\ handles = <<>>
    /\ Len(out) = 1
    /\ out[1].kind = "info"

----------------------------------------------------------------------------
(* Claims checked under SpecDevice.                                        *)

\* C4: no partial record is surfaced: when the sensor lookup or any of the
\* six reads of a device fails, its thread never holds a GpuData, no JSON
\* line of the device is ever printed, and at the end of the run its only
\* output is one error line on stderr carrying none of the six fields.
C4_NoPartialRecord ==
    \A k \in 1..Len(handles) :
        ~AllMetricsValid(drm.entries[handles[k].gpu]) =>
            /\ ~handles[k].result.ok
            /\ \A p \in LinesOf(k) :
                  out[p].kind = "error" /\ out[p].stream = "stderr" /\ out[p].json = <<>>
            /\ pc = "exit" => Cardinality(LinesOf(k)) = 1 /\ Len(out) = 1

\* C4 witness: five reads succeeded, mem_info_vram_total is missing, and the
\* run ended with one error line.
C4_Witness ==
    /\ pc = "exit"
    /\ Len(handles) = 1
    /\ SensorDirs(GpuOf(1)) # {}
    /\ read_and_parse(FirstSensorDir(GpuOf(1)).files["temp1_input"], "i32").ok
    /\ read_and_parse(FirstSensorDir(GpuOf(1)).files["freq1_input"], "u64").ok
    /\ read_and_parse(FirstSensorDir(GpuOf(1)).files["power1_average"], "u64").ok
    /\ read_and_parse(GpuOf(1).files["gpu_busy_percent"], "f32").ok
    /\ read_and_parse(GpuOf(1).files["mem_info_vram_used"], "u64").ok
    /\ ~GpuOf(1).files["mem_info_vram_total"].exists
    /\ Len(out) = 1
    /\ out[1].kind = "error" /\ out[1].json = <<>> /\ out[1].msg = "IOError"

\* The byte count a metric file of device k holds.
BytesIn(k, f) == parse_u64(trim(drm.entries[handles[k].gpu].files[f].text)).val

\* C10: in every JSON record the memory-used and memory-total values are the
\* byte counts of mem_info_vram_used and mem_info_vram_total formatted by
\* the scaled binary rule of format_units (1048576 bytes is "1.00 MB").
C10_MemoryScaledBinary ==
    \A p \in JsonLines :
        /\ out[p].json[5].key = "GPU VRAM Usage"
        /\ out[p].json[5].value
             = format_units("Memory", ToF(BytesIn(out[p].dev, "mem_info_vram_used")))
        /\ out[p].json[6].key = "GPU VRAM Total"
        /\ out[p].json[6].value
             = format_units("Memory", ToF(BytesIn(out[p].dev, "mem_info_vram_total")))

----------------------------------------------------------------------------
(* Claims checked under SpecDiscovery.                                     *)

\* C8: after discovery, the devices found are exactly the entries whose name
\* starts with "card" and whose device/vendor is readable and trims to
\* 0x1002, in listing order; any other entry is left out without an error;
\* and discovery fails exactly when the directory cannot be listed.
C8_Discovery ==
    pc # "start" =>
        /\ drm.listable =>
              /\ exit_code # 1
              /\ \A p \in 1..Len(out) : out[p].kind # "fatal"
              /\ \A i \in 1..Len(drm.entries) :
                    (\E k \in Devs : amd_gpus[k] = i) <=> Qualifies(drm.entries[i])
              /\ \A k \in Devs : amd_gpus[k] \in 1..Len(drm.entries)
              /\ \A j, k \in Devs : j < k => amd_gpus[j] < amd_gpus[k]
        /\ ~drm.listable =>
              /\ exit_code = 1
              /\ amd_gpus = <<>>
              /\ Len(out) = 1 /\ out[1].kind = "fatal"

\* C8 witness: of two entries named card0, the one with an unreadable vendor
\* file is left out and the one whose vendor file holds 0x1002 inside
\* whitespace is found.
C8_Witness ==
    /\ pc = "spawn"
    /\ Len(drm.entries) = 2
    /\ HasCardPrefix(drm.entries[1].name) /\ ~drm.entries[1].vendor.exists
    /\ HasCardPrefix(drm.entries[2].name)
    /\ Len(drm.entries[2].vendor.text) > 7
    /\ amd_gpus = <<2>>

----------------------------------------------------------------------------
(* Claims checked under SpecFormat.                                        *)

Table == IF unit = "Memory" THEN BYTE_SUFFIXES ELSE HERTZ_SUFFIXES

\* The thresholds of the table the value is at least as large as.
Met == { i \in 1..Len(Table) : GeF(value, Table[i].threshold) }

\* The largest of them.
LargestMet ==
    CHOOSE i \in Met : \A j \in Met : GeF(Table[i].threshold, Table[j].threshold)

\* A quotient is at least 1; one quotient is below another of the same divisor.
QAtLeastOne(q) == GeF(F(q.m, q.e), F(q.d, 0))

QBelow(q, r) == q.d = r.d /\ ~GeF(F(q.m, q.e), F(r.m, r.e))

\* C9: for Memory and Frequency the suffix is that of the largest threshold
\* the value meets or exceeds, so a value equal to a threshold gets that
\* threshold's suffix; the quotient value / threshold is at least 1 and
\* below the ratio to the next larger threshold; and a value below every
\* threshold (below 1) is shown with no suffix and no decimals.
C9_LargestThreshold ==
    (formatted # <<>> /\ unit \in {"Memory", "Frequency"}) =>
        /\ Met = {} <=> ~GeF(value, F(1, 0))
        /\ Met = {} => formatted[1].suffix = "" /\ formatted[1].dec = 0
        /\ Met # {} =>
              LET k == LargestMet
                  q == Scaled(value, Table[k].threshold)
              IN  /\ formatted[1].suffix = " " \o Table[k].suffix
                  /\ formatted[1].dec = 2
                  /\ QAtLeastOne(q)
                  /\ formatted[1].n >= 100
                  /\ k > 1 => QBelow(q, Scaled(Table[k - 1].threshold, Table[k].threshold))
        /\ \A i \in 1..Len(Table) :
              Norm(value) = Table[i].threshold =>
                  /\ formatted[1].suffix = " " \o Table[i].suffix
                  /\ formatted[1].n = 100

\* C9 witness: 1024 bytes was formatted, as "1.00 KB".
C9_Witness ==
    /\ formatted # <<>>
    /\ unit = "Memory"
    /\ Norm(value) = F(1, 10)
    /\ formatted[1] = [neg |-> FALSE, n |-> 100, dec |-> 2, suffix |-> " KB"]

====
